---- MODULE Spec2Model ----
(***************************************************************************)
(* Model of the TA612 thermal logger device interface                      *)
(* (src/src/thermal_logger.py, class ThermalLogger): the frame encoder     *)
(* _send_command, the frame decoder _read_response, and the three          *)
(* operations get_device_info, get_real_time_data and get_recorded_data,   *)
(* driven over a byte channel whose reads may return fewer bytes than      *)
(* requested.                                                              *)
(*                                                                         *)
(* Python's None is modelled as the empty sequence and a value v that may  *)
(* be None as the one-element sequence <<v>>.                              *)
(***************************************************************************)
EXTENDS Integers, Sequences, FiniteSets, TLC

\* ------------------------------------------------------------------ bounds

\* Device frames queued on the channel in the initial state.
MaxFrames == 2
\* Operations one session runs.
MaxOps == 2
\* Payload lengths 0..MaxSmallLen are all tried in the loopback specification.
MaxSmallLen == 9
\* The longest payload of the loopback specification.
MaxRoundTripLen == 250
\* Payload lengths 0..MaxDecodeLen are all tried in the decoding specification.
MaxDecodeLen == 25
\* Device frames queued on the channel in the termination specification.
MaxLiveFrames == 1

\* --------------------------------------------------------------- constants

CMD_STOP == 0
CMD_REAL_TIME == 1
CMD_RECORDED == 2
\* 0xAA and 0x55, the two header bytes
HDR_AA == 170
HDR_55 == 85
\* 0x6D60, the raw value of a disconnected sensor
SENTINEL == 28000
ByteMod == 256

None == << >>
Some(v) == << v >>

\* ----------------------------------------------------------------- helpers

Min(a, b) == IF a < b THEN a ELSE b

\* s[lo] + ... + s[hi], by halving so that long frames stay shallow
RECURSIVE SumRange(_, _, _)
SumRange(s, lo, hi) ==
    IF lo > hi THEN 0
    ELSE IF lo = hi THEN s[lo]
    ELSE LET mid == (lo + hi) \div 2
         IN  SumRange(s, lo, mid) + SumRange(s, mid + 1, hi)

SumSeq(s) == SumRange(s, 1, Len(s))

Take(s, k) == SubSeq(s, 1, k)
Drop(s, k) == SubSeq(s, k + 1, Len(s))

\* _calculate_checksum: sum(data) & 0xFF
BadChecksumNoHeader(data) == SumSeq(Drop(data, 2)) % ByteMod
calculate_checksum(data) == SumSeq(data) % ByteMod

\* The frame _send_command builds for (instruction, data); data is None or
\* Some(payload).  `if data:` is false for None and for an empty payload.
BadLenFrame(instruction, data) ==
    LET body == IF data # None /\ data[1] # << >>
                THEN <<2 + Len(data[1])>> \o data[1]
                ELSE <<3>>
        frame == <<HDR_AA, HDR_55, instruction>> \o body
    IN  frame \o <<calculate_checksum(frame)>>
CommandFrame(instruction, data) ==
    LET body == IF data # None /\ data[1] # << >>
                THEN <<3 + Len(data[1])>> \o data[1]
                ELSE <<3>>
        frame == <<HDR_AA, HDR_55, instruction>> \o body
    IN  frame \o <<calculate_checksum(frame)>>

\* bytearray(frame) raises ValueError unless every element is in range(256).
LaxAllBytes(frame) == TRUE
AllBytes(frame) == \A i \in 1..Len(frame) : frame[i] \in 0..(ByteMod - 1)

\* temp_raw = data[idx] | (data[idx + 1] << 8), low byte first (0-based idx)
BadRaw16(data, idx) == ByteMod * data[idx + 1] + data[idx + 2]
Raw16(data, idx) == data[idx + 1] + ByteMod * data[idx + 2]

\* One channel: None for the sentinel, else the reading.  temp_raw / 10.0 is
\* kept as the number of tenths of a degree.
BadChannel(data, idx) ==
    IF {data[idx + 1], data[idx + 2]} = {SENTINEL % ByteMod, SENTINEL \div ByteMod}
    THEN None ELSE Some(Raw16(data, idx))
Channel(data, idx) ==
    IF Raw16(data, idx) = SENTINEL THEN None ELSE Some(Raw16(data, idx))

\* The four channels decoded from data[i .. i+7] (0-based i).
BadSample(data, i) == [ch \in 1..4 |-> Channel(data, 2 * (ch - 1))]
Sample(data, i) == [ch \in 1..4 |-> Channel(data, i + 2 * (ch - 1))]

\* ------------------------------------------------------- the device's bytes

\* A frame as the device puts it on the wire: header, instruction, length
\* byte, payload, checksum.
WireFrame(h1, h2, ins, len, payload, cks) ==
    <<h1, h2, ins, len>> \o payload \o <<cks>>

\* A well-formed device frame.
DeviceFrame(ins, payload) ==
    LET head == <<HDR_55, HDR_AA, ins, 3 + Len(payload)>> \o payload
    IN  head \o <<SumSeq(head) % ByteMod>>

\* The same frame with a wrong checksum byte.
CorruptFrame(ins, payload) ==
    LET head == <<HDR_55, HDR_AA, ins, 3 + Len(payload)>> \o payload
    IN  head \o <<(SumSeq(head) + 1) % ByteMod>>

\* 64 02 4A 01: model 612, version 3.30
InfoPayload == <<100, 2, 74, 1>>
ShortPayload == <<100, 2>>
\* E1 00 | 60 6D | 60 6D | 60 6D: 22.5 degrees and three disconnected sensors
PayloadA == <<225, 0, 96, 109, 96, 109, 96, 109>>
\* 6D 60 | FF FF | 00 00 | 60 6D: the sentinel's bytes exchanged, 0xFFFF, 0
PayloadB == <<109, 96, 255, 255, 0, 0, 96, 109>>

GoodFrames ==
    { DeviceFrame(CMD_STOP, InfoPayload),
      DeviceFrame(CMD_STOP, ShortPayload),
      DeviceFrame(CMD_REAL_TIME, PayloadA),
      DeviceFrame(CMD_RECORDED, << >>),
      DeviceFrame(CMD_RECORDED, PayloadB),
      DeviceFrame(CMD_RECORDED, PayloadA \o PayloadB \o <<7>>) }

CorruptFrames ==
    { CorruptFrame(CMD_STOP, InfoPayload),
      CorruptFrame(CMD_REAL_TIME, PayloadB),
      CorruptFrame(CMD_RECORDED, PayloadA) }

MalformedFrames ==
    { \* the host's own header order
      WireFrame(HDR_AA, HDR_55, CMD_RECORDED, 3, << >>, 4),
      \* length bytes below 3
      WireFrame(HDR_55, HDR_AA, CMD_RECORDED, 2, << >>, 3),
      WireFrame(HDR_55, HDR_AA, CMD_STOP, 0, << >>, 255) }

DevFrames == GoodFrames \cup CorruptFrames \cup MalformedFrames

RECURSIVE StreamsOf(_)
StreamsOf(n) ==
    IF n = 0 THEN { << >> }
    ELSE LET prev == StreamsOf(n - 1)
         IN  prev \cup { s \o f : s \in prev, f \in DevFrames }

\* A payload of n bytes: base, base + step, base + 2 * step, ... (mod 256).
FillPayload(n, base, step) == [i \in 1..n |-> (base + (i - 1) * step) % ByteMod]

\* The decoding specification's frames.  A channel's raw value v travels low
\* byte first.
RawValues == {0, 1, 96, 225, 24685, 27904, 27999, 28000, 28001, 32768, 65535}

\* Eight bytes, four channels: raw value v on channel pos, w on the others.
ChannelPayload(v, pos, w) ==
    [i \in 1..8 |->
        LET raw == IF (i + 1) \div 2 = pos THEN v ELSE w
        IN  IF i % 2 = 1 THEN raw % ByteMod ELSE raw \div ByteMod]

ChannelPayloads == { ChannelPayload(v, pos, w) : v \in RawValues, pos \in 1..4, w \in {225, 28000} }

\* Payloads of every length up to MaxDecodeLen: 60 6D 7A 87 ... (the first
\* channel is the sentinel) and 60 6D 60 6D ... (every channel is).
LengthPayloads ==
    { FillPayload(n, 96, 13) : n \in 0..MaxDecodeLen }
        \cup { [i \in 1..n |-> IF i % 2 = 1 THEN 96 ELSE 109] : n \in 0..MaxDecodeLen }

DecodeFrames ==
    { DeviceFrame(ins, p) : ins \in {CMD_STOP, CMD_REAL_TIME, CMD_RECORDED}, p \in LengthPayloads }
        \cup { DeviceFrame(CMD_REAL_TIME, p) : p \in ChannelPayloads }
        \cup { DeviceFrame(CMD_RECORDED, PayloadB \o p) : p \in ChannelPayloads }

\* What follows the frame on the channel: nothing, or one more Recorded frame.
DecodeTails == { << >>, DeviceFrame(CMD_RECORDED, PayloadA) }

\* ------------------------------------------------------------------- state

VARIABLES
    rx,            \* bytes the device has sent and the host has not read yet
    tx,            \* the frames the operation has written, one entry per write
    op,            \* the operation running or last run
    pc,            \* where the session's single thread of control is
    nops,          \* operations started so far
    arg,           \* the (instruction, data) given to _send_command by the loopback
    instruction,   \* _read_response: local instruction
    frame_length,  \* _read_response: local frame_length
    got,           \* the bytes the reads of the current _read_response call returned
    reqs,          \* the sizes those reads asked for
    ret,           \* the return statement the latest _read_response call left by
    response,      \* what it returned: None or Some(dict)
    warned,        \* whether it printed the checksum warning
    result,        \* what the operation returned to its caller
    out,           \* the samples the recorded generator has yielded
    gdata,         \* get_recorded_data: local data
    gi,            \* get_recorded_data: local i
    exc,           \* the exception that left the operation, "" for none
    opBytes,       \* the bytes the channel returned during the operation
    shorts,        \* the reads of the operation that returned fewer bytes than asked
    late,          \* whether next() has been called on the generator after it finished
    prev,          \* how the operation before the current one ended: abandoned, frame delivered
    sink,          \* download_recorded_data: the rows written, sample_num, the total printed
    th,            \* two callers sharing the session: their locals, the channel, the lock
    log,           \* log_real_time_data: where its loop is, its clock, rows and sample_count
    ser            \* self.ser: is_open, the times it was really closed, close() calls, how the with-block was left

vars == <<rx, tx, op, pc, nops, arg, instruction, frame_length, got, reqs, ret,
          response, warned, result, out, gdata, gi, exc, opBytes, shorts, late, prev, sink, th, log, ser>>

callVars == <<instruction, frame_length, got, reqs, ret, response, warned>>

NoArg == [instruction |-> CMD_STOP, data |-> None, swap |-> FALSE]

\* Before the first operation there is nothing to remember.
NoPrev == [abandoned |-> FALSE, delivered |-> FALSE]

\* download_recorded_data before its loop: the header row only, sample_num = 0.
NoSink == [rows |-> << >>, sample_num |-> 0, total |-> None]

\* serial.Serial(...) in __init__ opens the port.
OpenPort == [is_open |-> TRUE, closes |-> 0, calls |-> 0, left |-> ""]

\* log_real_time_data is not running.
NoLog == [at |-> "off", duration |-> 0, elapsed |-> 0, iters |-> 0, rows |-> << >>,
          sample_count |-> 0]

\* The session has one caller.
NoCallers == [locking |-> FALSE]

InitLocals ==
    /\ tx = << >>
    /\ nops = 0
    /\ instruction = 0
    /\ frame_length = 0
    /\ got = << >>
    /\ reqs = << >>
    /\ ret = ""
    /\ response = None
    /\ warned = FALSE
    /\ result = None
    /\ out = << >>
    /\ gdata = << >>
    /\ gi = 0
    /\ exc = ""
    /\ opBytes = << >>
    /\ shorts = 0
    /\ late = FALSE
    /\ prev = NoPrev
    /\ sink = NoSink
    /\ th = NoCallers
    /\ log = NoLog
    /\ ser = OpenPort

\* The payload lengths of the loopback sessions; 252 is the longest payload
\* whose length byte fits a byte.
LoopbackLens == (0..MaxSmallLen) \cup {MaxRoundTripLen} \cup {252, 253}

LoopbackArgs ==
    { [instruction |-> ins, data |-> d, swap |-> sw] :
        ins \in {CMD_STOP, CMD_RECORDED, 255},
        d \in {None} \cup { Some(FillPayload(n, 255, 0)) : n \in LoopbackLens }
                     \cup { Some(FillPayload(n, 1, 1)) : n \in LoopbackLens },
        sw \in BOOLEAN }

\* A session on a channel holding device frames.
InitSession ==
    /\ rx \in StreamsOf(MaxFrames)
    /\ op = "none"
    /\ pc = "idle"
    /\ arg = NoArg
    /\ InitLocals

\* The sessions of the termination specification.
InitLive ==
    /\ rx \in StreamsOf(MaxLiveFrames)
    /\ op = "none"
    /\ pc = "idle"
    /\ arg = NoArg
    /\ InitLocals

\* A loopback session: _send_command's bytes are fed to _read_response, as
\* written (swap = FALSE) or with the two header bytes exchanged, which is the
\* order the device sends them in (swap = TRUE).
InitLoopback ==
    /\ rx = << >>
    /\ op = "decode"
    /\ pc = "encode"
    /\ arg \in LoopbackArgs
    /\ InitLocals

Init == InitSession \/ InitLoopback

\* A session on a channel holding one device frame of DecodeFrames, alone or
\* followed by a Recorded frame.
InitDecode ==
    /\ rx \in { f \o t : f \in DecodeFrames, t \in DecodeTails }
    /\ op = "none"
    /\ pc = "idle"
    /\ arg = NoArg
    /\ InitLocals

\* ------------------------------------------------------------- the channel

\* The byte counts ser.read(n) can return: every requested byte, or fewer
\* when the read times out first (the bytes left over stay on the channel).
\* A request for no bytes, or for a negative number, returns b''.
ReadCounts(n) == IF n <= 0 THEN {0} ELSE 0..Min(n, Len(rx))

\* -------------------------------------------------- what the callers return

\* get_device_info, from the response on: 'TA<model>' and 'V<version:.2f>',
\* the version kept as <<units, hundredths>> of version_raw / 100.0.
BadInfoResult(resp) ==
    IF resp # None /\ resp[1].instruction = CMD_STOP /\ Len(resp[1].data) >= 4
    THEN LET data == resp[1].data
             model == Raw16(data, Len(data) - 4)
             version_raw == Raw16(data, Len(data) - 2)
         IN  Some([model |-> model,
                   version |-> <<version_raw \div 100, version_raw % 100>>])
    ELSE None
InfoResult(resp) ==
    IF resp # None /\ resp[1].instruction = CMD_STOP /\ Len(resp[1].data) >= 4
    THEN LET data == resp[1].data
             model == Raw16(data, 0)
             version_raw == Raw16(data, 2)
         IN  Some([model |-> model,
                   version |-> <<version_raw \div 100, version_raw % 100>>])
    ELSE None

\* get_real_time_data, from the response on.  `now` is the time at which
\* this code runs, counted in channel events (writes and reads) completed:
\* timestamp = datetime.now() is taken here, after _read_response returned.
BadStampResult(resp, now) ==
    IF resp # None /\ resp[1].instruction = CMD_REAL_TIME /\ Len(resp[1].data) >= 8
    THEN Some([timestamp |-> 1, ch |-> Sample(resp[1].data, 0)])
    ELSE None
RealTimeResult(resp, now) ==
    IF resp # None /\ resp[1].instruction = CMD_REAL_TIME /\ Len(resp[1].data) >= 8
    THEN Some([timestamp |-> now, ch |-> Sample(resp[1].data, 0)])
    ELSE None

\* The loop test of get_recorded_data: `if not response or
\* response['instruction'] != self.CMD_RECORDED: break`.
BadStreamBreaks(resp) == resp = None
StreamBreaks(resp) == resp = None \/ resp[1].instruction # CMD_RECORDED

\* `while i + 7 < len(data)`
BadHasSample(data, i) == i + 8 < Len(data)
HasSample(data, i) == i + 7 < Len(data)

\* What the caller of _read_response does with its return value resp, up to
\* the caller's next channel read, yield or return.
AfterResponse(resp) ==
    CASE op = "info" ->
            /\ result' = InfoResult(resp)
            /\ pc' = "idle"
            /\ UNCHANGED <<out, gdata, gi>>
      [] op = "rt" ->
            /\ result' = RealTimeResult(resp, Len(tx) + Len(reqs'))
            /\ pc' = "idle"
            /\ UNCHANGED <<out, gdata, gi>>
      [] op = "rec" ->
            IF StreamBreaks(resp)
            THEN /\ pc' = "idle"
                 /\ UNCHANGED <<result, out, gdata, gi>>
            ELSE /\ gdata' = resp[1].data
                 /\ gi' = 0
                 /\ IF HasSample(resp[1].data, 0)
                    THEN /\ out' = Append(out, Sample(resp[1].data, 0))
                         /\ pc' = "yield"
                    ELSE /\ out' = out
                         /\ pc' = "hdr"
                 /\ UNCHANGED result
      [] OTHER ->
            /\ pc' = "done"
            /\ UNCHANGED <<result, out, gdata, gi>>

\* _read_response leaves by the return statement at `line` with value resp.
BadReturn(resp, line) ==
    /\ ret' = line
    /\ response' = resp
    /\ IF resp = None /\ op \in {"info", "rt"}
       THEN /\ pc' = "hdr"
            /\ UNCHANGED <<result, out, gdata, gi>>
       ELSE AfterResponse(resp)
Return(resp, line) ==
    /\ ret' = line
    /\ response' = resp
    /\ AfterResponse(resp)

\* -------------------------------------------------------------- operations

\* _send_command(instruction, data), `written` being what the operation has
\* written so far: bytearray(frame) raises ValueError before the write unless
\* every element is a byte.
BadSendCommand(ins, data, written) ==
    /\ tx' = written
    /\ pc' = "hdr"
    /\ exc' = ""
SendCommand(ins, data, written) ==
    LET frame == CommandFrame(ins, data)
    IN  IF AllBytes(frame)
        THEN /\ tx' = Append(written, frame)
             /\ pc' = "hdr"
             /\ exc' = ""
        ELSE /\ tx' = written
             /\ pc' = "raised"
             /\ exc' = "ValueError"

\* The start of an operation: every local of the code starts afresh; the
\* channel is left as it is.
LeakyStartOp(o) ==
    /\ pc \in {"idle", "closed"}
    /\ nops < MaxOps
    /\ nops' = nops + 1
    /\ op' = o
    /\ result' = None
    /\ out' = out
    /\ gdata' = << >>
    /\ gi' = 0
    /\ opBytes' = << >>
    /\ shorts' = 0
    /\ instruction' = 0
    /\ frame_length' = 0
    /\ got' = << >>
    /\ reqs' = << >>
    /\ ret' = ""
    /\ response' = None
    /\ warned' = FALSE
    /\ late' = FALSE
    /\ prev' = [abandoned |-> (pc = "closed"), delivered |-> (ret = "L135")]
    /\ UNCHANGED <<rx, arg, sink, th, log, ser>>
FlushingStartOp(o) ==
    /\ pc \in {"idle", "closed"}
    /\ nops < MaxOps
    /\ nops' = nops + 1
    /\ op' = o
    /\ result' = None
    /\ out' = << >>
    /\ gdata' = << >>
    /\ gi' = 0
    /\ opBytes' = << >>
    /\ shorts' = 0
    /\ instruction' = 0
    /\ frame_length' = 0
    /\ got' = << >>
    /\ reqs' = << >>
    /\ ret' = ""
    /\ response' = None
    /\ warned' = FALSE
    /\ late' = FALSE
    /\ prev' = [abandoned |-> (pc = "closed"), delivered |-> (ret = "L135")]
    /\ rx' = << >>
    /\ UNCHANGED <<arg, sink, th, log, ser>>
StartOp(o) ==
    /\ pc \in {"idle", "closed"}
    /\ nops < MaxOps
    /\ nops' = nops + 1
    /\ op' = o
    /\ result' = None
    /\ out' = << >>
    /\ gdata' = << >>
    /\ gi' = 0
    /\ opBytes' = << >>
    /\ shorts' = 0
    /\ instruction' = 0
    /\ frame_length' = 0
    /\ got' = << >>
    /\ reqs' = << >>
    /\ ret' = ""
    /\ response' = None
    /\ warned' = FALSE
    /\ late' = FALSE
    /\ prev' = [abandoned |-> (pc = "closed"), delivered |-> (ret = "L135")]
    /\ UNCHANGED <<rx, arg, sink, th, log, ser>>

\* get_device_info, up to its first channel read.
BadGetDeviceInfo ==
    /\ StartOp("info")
    /\ SendCommand(CMD_STOP, None, <<CommandFrame(CMD_STOP, None)>>)
GetDeviceInfo ==
    /\ StartOp("info")
    /\ SendCommand(CMD_STOP, None, << >>)

\* get_real_time_data, up to its first channel read.
GetRealTimeData ==
    /\ StartOp("rt")
    /\ SendCommand(CMD_REAL_TIME, None, << >>)

\* get_recorded_data(): calling a generator function runs none of its body.
GetRecordedData ==
    /\ StartOp("rec")
    /\ pc' = "created"
    /\ exc' = ""
    /\ tx' = << >>

\* The consumer's first next() on the generator: the body starts and sends
\* the command.
PullFirst ==
    /\ pc = "created"
    /\ SendCommand(CMD_RECORDED, None, tx)
    /\ UNCHANGED <<rx, op, nops, arg, callVars, result, out, gdata, gi, opBytes, shorts, late, prev, sink, th, log, ser>>

\* A later next(): the generator resumes after its yield.
BadPullNext ==
    /\ pc = "yield"
    /\ gi' = gi + 8
    /\ out' = out
    /\ pc' = "hdr"
    /\ UNCHANGED <<rx, tx, op, nops, arg, callVars, result, gdata, exc, opBytes, shorts, late, prev, sink, th, log, ser>>
PullNext ==
    /\ pc = "yield"
    /\ gi' = gi + 8
    /\ IF HasSample(gdata, gi + 8)
       THEN /\ out' = Append(out, Sample(gdata, gi + 8))
            /\ pc' = "yield"
       ELSE /\ out' = out
            /\ pc' = "hdr"
    /\ UNCHANGED <<rx, tx, op, nops, arg, callVars, result, gdata, exc, opBytes, shorts, late, prev, sink, th, log, ser>>

\* The consumer stops iterating and drops the generator: Python closes it at
\* the yield it is suspended at (or before its body ever started), and no
\* statement of the body runs.
DrainingAbandon ==
    /\ pc \in {"created", "yield"}
    /\ pc' = "closed"
    /\ rx' = << >>
    /\ UNCHANGED <<tx, op, nops, arg, callVars, result, out, gdata, gi, exc, opBytes,
                   shorts, late, prev, sink, th, log, ser>>
Abandon ==
    /\ pc \in {"created", "yield"}
    /\ pc' = "closed"
    /\ UNCHANGED <<rx, tx, op, nops, arg, callVars, result, out, gdata, gi, exc, opBytes,
                   shorts, late, prev, sink, th, log, ser>>

\* Where next() leaves a generator that has finished (returned, raised or
\* was closed) at position p: where it was, with StopIteration for the caller.
BadExhaustedPc(p) == "hdr"
ExhaustedPc(p) == p

\* next() on the generator after it finished.
PullEnded ==
    /\ op = "rec"
    /\ pc \in {"idle", "closed", "raised"}
    /\ pc' = ExhaustedPc(pc)
    /\ late' = TRUE
    /\ UNCHANGED <<prev, sink, th, log, ser>>
    /\ UNCHANGED <<rx, tx, op, nops, arg, callVars, result, out, gdata, gi, exc, opBytes,
                   shorts>>

\* The device's header order for a frame in the host's.
SwapHeader(frame) == <<frame[2], frame[1]>> \o SubSeq(frame, 3, Len(frame))

\* The loopback: _send_command(arg.instruction, arg.data), whose bytes become
\* the channel's next bytes to read.
Loopback ==
    /\ pc = "encode"
    /\ SendCommand(arg.instruction, arg.data, tx)
    /\ rx' = IF exc' # "" THEN rx
             ELSE IF arg.swap THEN SwapHeader(tx'[Len(tx')])
             ELSE tx'[Len(tx')]
    /\ UNCHANGED <<op, nops, arg, callVars, result, out, gdata, gi, opBytes, shorts, late, prev, sink, th, log, ser>>

\* --------------------------------------------------------- _read_response

\* `if header[0] != 0x55 or header[1] != 0xAA: return None`, negated
BadHeaderOK(header) == {header[1], header[2]} = {HDR_55, HDR_AA}
HeaderOK(header) == header[1] = HDR_55 /\ header[2] = HDR_AA

\* header = self.ser.read(2) and the two tests on it.
ReadHeader ==
    /\ pc = "hdr"
    /\ \E k \in ReadCounts(2) :
         LET header == Take(rx, k)
         IN  /\ rx' = Drop(rx, k)
             /\ got' = header
             /\ reqs' = <<2>>
             /\ opBytes' = opBytes \o header
             /\ shorts' = IF k < 2 THEN shorts + 1 ELSE shorts
             /\ warned' = FALSE
             /\ UNCHANGED <<instruction, frame_length, log, ser>>
             /\ IF k < 2
                THEN Return(None, "L98")
                ELSE IF ~HeaderOK(header)
                     THEN Return(None, "L101")
                     ELSE /\ pc' = "ins"
                          /\ ret' = ""
                          /\ response' = None
                          /\ UNCHANGED <<result, out, gdata, gi>>
    /\ UNCHANGED <<tx, op, nops, arg, exc, late, prev, sink, th, log, ser>>

\* instruction = self.ser.read(1)
ReadInstruction ==
    /\ pc = "ins"
    /\ \E k \in ReadCounts(1) :
         LET b == Take(rx, k)
         IN  /\ rx' = Drop(rx, k)
             /\ got' = got \o b
             /\ reqs' = Append(reqs, 1)
             /\ opBytes' = opBytes \o b
             /\ shorts' = IF k < 1 THEN shorts + 1 ELSE shorts
             /\ UNCHANGED <<frame_length, warned>>
             /\ IF k < 1
                THEN /\ Return(None, "L106")
                     /\ UNCHANGED instruction
                ELSE /\ instruction' = b[1]
                     /\ pc' = "len"
                     /\ UNCHANGED <<ret, response, result, out, gdata, gi>>
    /\ UNCHANGED <<tx, op, nops, arg, exc, late, prev, sink, th, log, ser>>

\* frame_length = self.ser.read(1)
ReadLength ==
    /\ pc = "len"
    /\ \E k \in ReadCounts(1) :
         LET b == Take(rx, k)
         IN  /\ rx' = Drop(rx, k)
             /\ got' = got \o b
             /\ reqs' = Append(reqs, 1)
             /\ opBytes' = opBytes \o b
             /\ shorts' = IF k < 1 THEN shorts + 1 ELSE shorts
             /\ UNCHANGED <<instruction, warned>>
             /\ IF k < 1
                THEN /\ Return(None, "L112")
                     /\ UNCHANGED frame_length
                ELSE /\ frame_length' = b[1]
                     /\ pc' = "rest"
                     /\ UNCHANGED <<ret, response, result, out, gdata, gi>>
    /\ UNCHANGED <<tx, op, nops, arg, exc, late, prev, sink, th, log, ser>>

\* remaining = frame_length - 2
BadRemaining(len) == len - 1
ShortRemaining(len) == len - 3
Remaining(len) == len - 2

\* checksum = data[-1]; payload = data[:-1]
BadSplit(data) ==
    [checksum |-> data[1], payload |-> SubSeq(data, 2, Len(data))]
Split(data) ==
    [checksum |-> data[Len(data)], payload |-> SubSeq(data, 1, Len(data) - 1)]

\* all_bytes = [0x55, 0xAA, instruction, frame_length] + list(payload)
BadExpected(ins, len, payload) ==
    calculate_checksum(<<ins, len>> \o payload)
Expected(ins, len, payload) ==
    calculate_checksum(<<HDR_55, HDR_AA, ins, len>> \o payload)

\* `if len(data) < remaining: return None`
BadIncomplete(data, remaining) == Len(data) + 1 < remaining
Incomplete(data, remaining) == Len(data) < remaining

\* The dict _read_response returns.
Delivered(ins, payload) == [instruction |-> ins, data |-> payload]

\* The checksum test and the return: a mismatch prints a warning and the
\* frame is returned all the same.
BadDeliver(ins, payload, checksum, calculated) ==
    IF checksum # calculated THEN None ELSE Some(Delivered(ins, payload))
Deliver(ins, payload, checksum, calculated) == Some(Delivered(ins, payload))

\* data = self.ser.read(remaining) and the rest of _read_response.  data[-1]
\* of an empty data raises IndexError, which leaves the operation.
ReadRemaining ==
    /\ pc = "rest"
    /\ \E k \in ReadCounts(Remaining(frame_length)) :
         LET remaining == Remaining(frame_length)
             data == Take(rx, k)
         IN  /\ rx' = Drop(rx, k)
             /\ got' = got \o data
             /\ reqs' = Append(reqs, remaining)
             /\ opBytes' = opBytes \o data
             /\ shorts' = IF k < remaining THEN shorts + 1 ELSE shorts
             /\ UNCHANGED <<instruction, frame_length, log, ser>>
             /\ IF Incomplete(data, remaining)
                THEN /\ Return(None, "L122")
                     /\ UNCHANGED <<warned, exc>>
                ELSE IF data = << >>
                THEN /\ exc' = "IndexError"
                     /\ pc' = "raised"
                     /\ ret' = "raise"
                     /\ response' = None
                     /\ UNCHANGED <<warned, result, out, gdata, gi>>
                ELSE LET parts == Split(data)
                         calculated == Expected(instruction, frame_length, parts.payload)
                     IN  /\ warned' = (parts.checksum # calculated)
                         /\ Return(Deliver(instruction, parts.payload,
                                           parts.checksum, calculated), "L135")
                         /\ UNCHANGED exc
    /\ UNCHANGED <<tx, op, nops, arg, late, prev, sink, th, log, ser>>

\* The steps of a session whose consumer iterates the recorded stream to
\* its end, as download_recorded_data's for loop does.
NextSession ==
    \/ GetDeviceInfo
    \/ GetRealTimeData
    \/ GetRecordedData
    \/ PullFirst
    \/ PullNext
    \/ ReadHeader
    \/ ReadInstruction
    \/ ReadLength
    \/ ReadRemaining

Next ==
    \/ NextSession
    \/ Loopback

Spec == Init /\ [][Next]_vars

\* Sessions on one frame drawn from a wide set of payloads.
SpecDecode == InitDecode /\ [][NextSession]_vars

\* ------------------------------------------------- download_recorded_data

\* A reading as csv.DictWriter writes it: the text of the float temp_raw / 10.0.
Tenths(v) == ToString(v \div 10) \o "." \o ToString(v % 10)

\* `data['chN'] if data['chN'] is not None else 'ERROR'`, as written to the file
Cell(reading) == IF reading = None THEN "ERROR" ELSE Tenths(reading[1])

\* The body of the for loop: one row written, then sample_num += 1.
BadWriteRow(snk, data) ==
    [snk EXCEPT !.rows = Append(@, [sample_num |-> snk.sample_num + 1,
                                    cells |-> [ch \in 1..4 |-> Cell(data[ch])]]),
                !.sample_num = @ + 1]
WriteRow(snk, data) ==
    [snk EXCEPT !.rows = Append(@, [sample_num |-> snk.sample_num,
                                    cells |-> [ch \in 1..4 |-> Cell(data[ch])]]),
                !.sample_num = @ + 1]

\* info = logger.get_device_info(), the first thing done with the session.
DownloadInfo ==
    /\ nops = 0
    /\ GetDeviceInfo

\* `for data in logger.get_recorded_data()`: the generator is made once
\* get_device_info has returned.
DownloadStream ==
    /\ op = "info"
    /\ pc = "idle"
    /\ GetRecordedData

\* One turn of the for loop on the sample just yielded: the row is written
\* and counted, and the loop's next() resumes the generator after its yield.
DownloadRow ==
    /\ pc = "yield"
    /\ sink' = WriteRow(sink, out[Len(out)])
    /\ gi' = gi + 8
    /\ IF HasSample(gdata, gi + 8)
       THEN /\ out' = Append(out, Sample(gdata, gi + 8))
            /\ pc' = "yield"
       ELSE /\ out' = out
            /\ pc' = "hdr"
    /\ UNCHANGED <<rx, tx, op, nops, arg, callVars, result, gdata, exc, opBytes, shorts, late,
                   prev, th, log, ser>>

\* The generator has ended and the loop is left:
\* print(f"Download complete. Total samples: {sample_num}")
DownloadComplete ==
    /\ op = "rec"
    /\ pc = "idle"
    /\ sink.total = None
    /\ sink' = [sink EXCEPT !.total = Some(sink.sample_num)]
    /\ UNCHANGED <<rx, tx, op, pc, nops, arg, callVars, result, out, gdata, gi, exc, opBytes,
                   shorts, late, prev, th, log, ser>>

\* The device has answered get_device_info before the recorded frames, or not.
InitDownload ==
    /\ rx \in StreamsOf(MaxFrames)
              \cup { DeviceFrame(CMD_STOP, InfoPayload) \o s : s \in StreamsOf(MaxFrames) }
    /\ op = "none"
    /\ pc = "idle"
    /\ arg = NoArg
    /\ InitLocals

NextDownload ==
    \/ DownloadInfo
    \/ DownloadStream
    \/ PullFirst
    \/ DownloadRow
    \/ DownloadComplete
    \/ ReadHeader
    \/ ReadInstruction
    \/ ReadLength
    \/ ReadRemaining

SpecDownload == InitDownload /\ [][NextDownload]_vars

\* ------------------------------------------------- __exit__ and close

MaxCloseCalls == 3

\* close(): `if self.ser and self.ser.is_open: self.ser.close()`
BadClose(port) ==
    [port EXCEPT !.is_open = FALSE, !.closes = @ + 1, !.calls = @ + 1]
Close(port) ==
    IF port.is_open
    THEN [port EXCEPT !.is_open = FALSE, !.closes = @ + 1, !.calls = @ + 1]
    ELSE [port EXCEPT !.calls = @ + 1]

\* writer.writerow raises in the for loop (the file cannot be written): the
\* exception leaves the loop, and the generator, suspended at its yield, is
\* dropped.
SinkRaises ==
    /\ ser.left = ""
    /\ pc = "yield"
    /\ pc' = "closed"
    /\ exc' = "OSError"
    /\ UNCHANGED <<rx, tx, op, nops, arg, callVars, result, out, gdata, gi, opBytes,
                   shorts, late, prev, sink, th, log, ser>>

\* How the with-block of download_recorded_data is being left, "" while it
\* is not: at its end, by an exception of an operation, or by one of the sink.
Leaving ==
    IF pc = "raised" THEN "operation"
    ELSE IF pc = "closed" /\ exc # "" THEN "sink"
    ELSE IF sink.total # None THEN "normal"
    ELSE ""

\* The with-block is left: __exit__ runs, whatever the way out, and calls close().
Exit ==
    /\ ser.left = ""
    /\ Leaving # ""
    /\ ser' = [Close(ser) EXCEPT !.left = Leaving]
    /\ UNCHANGED <<rx, tx, op, pc, nops, arg, callVars, result, out, gdata, gi, exc, opBytes,
                   shorts, late, prev, sink, th, log>>

\* close() called on the session once more, after the with-block.
CloseAgain ==
    /\ ser.left # ""
    /\ ser.calls < MaxCloseCalls
    /\ ser' = Close(ser)
    /\ UNCHANGED <<rx, tx, op, pc, nops, arg, callVars, result, out, gdata, gi, exc, opBytes,
                   shorts, late, prev, sink, th, log>>

NextWith ==
    \/ NextDownload
    \/ SinkRaises
    \/ Exit
    \/ CloseAgain

SpecWith == InitDownload /\ [][NextWith]_vars

\* ----------------------------------------------------- log_real_time_data

\* The durations the loop is run with; 0 stands for None and for 0, which
\* `if duration and ...` treats alike.
MaxDuration == 3

\* The row of one sample: its timestamp and four cells.
LogRowOf(data) ==
    [timestamp |-> data.timestamp, cells |-> [ch \in 1..4 |-> Cell(data.ch[ch])]]

\* start_time = time.time(); sample_count = 0, once get_device_info has
\* returned and the header row is written.
LogStart ==
    /\ log.at = "off"
    /\ op = "none"
    /\ \E d \in 0..MaxDuration :
         log' = [NoLog EXCEPT !.at = "loop", !.duration = d]
    /\ UNCHANGED <<rx, tx, op, pc, nops, arg, callVars, result, out, gdata, gi, exc, opBytes,
                   shorts, late, prev, sink, th, ser>>

\* The loop is inside the get_real_time_data call of an iteration.
Sampling == log.at = "loop" /\ nops = log.iters + 1

\* `data = logger.get_real_time_data()` at the top of an iteration.
LogSample ==
    /\ log.at = "loop"
    /\ nops = log.iters
    /\ GetRealTimeData

\* The rest of the iteration once get_real_time_data has returned: the row
\* and the count when there is a sample, then the duration test on the
\* clock, which has moved on by at least one tick since the last test, and
\* the break or the sleep.
LogRow ==
    /\ Sampling
    /\ pc = "idle"
    /\ \E d \in 1..2 :
         log' = [log EXCEPT !.iters = @ + 1,
                            !.elapsed = @ + d,
                            !.at = IF log.duration > 0 /\ log.elapsed + d >= log.duration
                                   THEN "ended" ELSE "loop",
                            !.rows = IF result # None THEN Append(@, LogRowOf(result[1])) ELSE @,
                            !.sample_count = IF result # None THEN @ + 1 ELSE @]
    /\ UNCHANGED <<rx, tx, op, pc, nops, arg, callVars, result, out, gdata, gi, exc, opBytes,
                   shorts, late, prev, sink, th, ser>>

NextLogging ==
    \/ LogStart
    \/ LogSample
    \/ ReadHeader
    \/ ReadInstruction
    \/ ReadLength
    \/ ReadRemaining
    \/ LogRow

SpecLogging == InitSession /\ [][NextLogging]_vars

\* ------------------------------------------- two callers on one session

\* Operations called on the shared session, by either caller.
MaxCalls == 2

Callers == {1, 2}

\* The locals of a caller that is not inside an operation.
IdleCaller ==
    [pc |-> "idle", op |-> "none", got |-> << >>, from |-> {},
     instruction |-> 0, frame_length |-> 0, response |-> None, result |-> None,
     out |-> << >>, exc |-> ""]

\* What the device sends in answer to the command of each operation: the
\* frames of the protocol description, `55 AA <ins> <len> <payload> <cks>`.
DeviceResponse(o) ==
    CASE o = "info" -> DeviceFrame(CMD_STOP, InfoPayload)
      [] o = "rt" -> DeviceFrame(CMD_REAL_TIME, PayloadA)
      [] o = "rec" -> DeviceFrame(CMD_RECORDED, PayloadB)

\* The command each operation hands to _send_command.
CommandByte(o) ==
    CASE o = "info" -> CMD_STOP
      [] o = "rt" -> CMD_REAL_TIME
      [] o = "rec" -> CMD_RECORDED

\* Channel bytes carry the caller whose command they answer.
Tagged(bytes, t) == [i \in 1..Len(bytes) |-> [b |-> bytes[i], of |-> t]]
Untagged(tagged) == [i \in 1..Len(tagged) |-> tagged[i].b]
Owners(tagged) == { tagged[i].of : i \in 1..Len(tagged) }

\* Every sample of a Recorded payload, as the loop of get_recorded_data
\* yields them to a consumer that iterates to the end.
FrameSamples(data) == [k \in 1..(Len(data) \div 8) |-> Sample(data, 8 * (k - 1))]

\* The caller enters an operation: under the locking discipline it first
\* takes the session's lock, which it holds until the operation is over.
Call(t, o) ==
    /\ th.c[t].pc = "idle"
    /\ th.calls < MaxCalls
    /\ th.locking => th.lock = 0
    /\ th' = [th EXCEPT !.lock = IF th.locking THEN t ELSE @,
                        !.calls = @ + 1,
                        !.c[t] = [IdleCaller EXCEPT !.pc = "send", !.op = o]]

\* _send_command: the command frame is written, and the device's answer to
\* it is on its way behind whatever is on the channel already.
CallerSend(t) ==
    /\ th.c[t].pc = "send"
    /\ th' = [th EXCEPT !.sent = Append(@, [by |-> t,
                                            frame |-> CommandFrame(CommandByte(th.c[t].op), None)]),
                        !.wire = @ \o Tagged(DeviceResponse(th.c[t].op), t),
                        !.c[t].pc = "hdr"]

\* The caller's operation takes the response resp of _read_response: the
\* single-response operations return, the recorded stream reads on or ends.
CallerAfter(me, resp, now) ==
    CASE me.op = "info" -> [me EXCEPT !.response = resp, !.result = InfoResult(resp),
                                      !.pc = "idle"]
      [] me.op = "rt" -> [me EXCEPT !.response = resp, !.result = RealTimeResult(resp, now),
                                    !.pc = "idle"]
      [] me.op = "rec" ->
            IF StreamBreaks(resp)
            THEN [me EXCEPT !.response = resp, !.pc = "idle"]
            ELSE [me EXCEPT !.response = resp, !.pc = "hdr", !.got = << >>,
                            !.out = @ \o FrameSamples(resp[1].data)]

\* The number of bytes the caller's next self.ser.read asks for.
CallerAsks(me) ==
    CASE me.pc = "hdr" -> 2
      [] me.pc \in {"ins", "len"} -> 1
      [] me.pc = "rest" -> Remaining(me.frame_length)

\* One self.ser.read of the caller's _read_response call, with the
\* statements up to its next read or to the end of the operation.  A read
\* returns the bytes at the head of the channel, whoever's they are.
CallerRead(t) ==
    LET me == th.c[t]
        n == CallerAsks(me)
        now == Len(th.sent)
    IN  /\ me.pc \in {"hdr", "ins", "len", "rest"}
        /\ \E k \in (IF n <= 0 THEN {0} ELSE 0..Min(n, Len(th.wire))) :
             LET taken == Take(th.wire, k)
                 data == Untagged(taken)
                 read == [me EXCEPT !.got = @ \o data, !.from = @ \cup Owners(taken)]
                 after ==
                     CASE me.pc = "hdr" ->
                            IF Len(data) < 2 \/ ~HeaderOK(data)
                            THEN CallerAfter(read, None, now)
                            ELSE [read EXCEPT !.pc = "ins"]
                       [] me.pc = "ins" ->
                            IF Len(data) < 1
                            THEN CallerAfter(read, None, now)
                            ELSE [read EXCEPT !.instruction = data[1], !.pc = "len"]
                       [] me.pc = "len" ->
                            IF Len(data) < 1
                            THEN CallerAfter(read, None, now)
                            ELSE [read EXCEPT !.frame_length = data[1], !.pc = "rest"]
                       [] me.pc = "rest" ->
                            IF Incomplete(data, n)
                            THEN CallerAfter(read, None, now)
                            ELSE IF data = << >>
                            THEN [read EXCEPT !.exc = "IndexError", !.pc = "raised"]
                            ELSE LET parts == Split(data)
                                 IN  CallerAfter(read,
                                         Deliver(me.instruction, parts.payload, parts.checksum,
                                                 Expected(me.instruction, me.frame_length,
                                                          parts.payload)),
                                         now)
             IN  th' = [th EXCEPT !.wire = Drop(@, k),
                                  !.stalled = @ \/ (n > 0 /\ k < Min(n, Len(th.wire))),
                                  !.c[t] = after,
                                  !.lock = IF after.pc \in {"idle", "raised"} THEN 0 ELSE @]

\* Two callers on a fresh session, with or without the lock.
InitCallers ==
    /\ th \in { [locking |-> l, lock |-> 0, calls |-> 0, wire |-> << >>, sent |-> << >>,
                  stalled |-> FALSE, c |-> [t \in Callers |-> IdleCaller]] :
                l \in BOOLEAN }
    /\ rx = << >>
    /\ op = "none"
    /\ pc = "idle"
    /\ arg = NoArg
    /\ tx = << >>
    /\ nops = 0
    /\ instruction = 0
    /\ frame_length = 0
    /\ got = << >>
    /\ reqs = << >>
    /\ ret = ""
    /\ response = None
    /\ warned = FALSE
    /\ result = None
    /\ out = << >>
    /\ gdata = << >>
    /\ gi = 0
    /\ exc = ""
    /\ opBytes = << >>
    /\ shorts = 0
    /\ late = FALSE
    /\ prev = NoPrev
    /\ sink = NoSink
    /\ log = NoLog
    /\ ser = OpenPort

NextCallers ==
    /\ \E t \in Callers :
          \/ \E o \in {"info", "rt", "rec"} : Call(t, o)
          \/ CallerSend(t)
          \/ CallerRead(t)
    /\ UNCHANGED <<rx, tx, op, pc, nops, arg, instruction, frame_length, got, reqs, ret,
                   response, warned, result, out, gdata, gi, exc, opBytes, shorts, late,
                   prev, sink, log, ser>>

SpecCallers == InitCallers /\ [][NextCallers]_vars

\* Sessions whose consumer may stop iterating, or call next() once more on a
\* generator that has finished.
NextConsumer ==
    \/ NextSession
    \/ Abandon
    \/ PullEnded

SpecConsumer == InitSession /\ [][NextConsumer]_vars

\* The session's thread runs whenever it can: every call of the code is
\* synchronous, every channel read returns (with the bytes or on its
\* timeout), and the consumer iterates the stream to its end.
SpecLive == InitLive /\ [][NextSession]_vars /\ WF_vars(NextSession)

\* ------------------------------------------------------------- properties

\* The wire format, written down independently of the code: the frame of
\* header bytes h1 h2, an instruction and a payload.
RefFrame(h1, h2, ins, payload) ==
    LET head == <<h1, h2, ins, 3 + Len(payload)>> \o payload
    IN  head \o <<SumSeq(head) % ByteMod>>

\* The payload a loopback session hands to _send_command (none when absent).
ArgPayload == IF arg.data = None THEN << >> ELSE arg.data[1]

\* The loopback's decode has returned and no read of it fell short.
LoopbackDecoded == op = "decode" /\ pc = "done" /\ shorts = 0

\* The latest read of the current _read_response call returned fewer bytes
\* than it asked for.
ShortRead ==
    /\ reqs # << >>
    /\ reqs[Len(reqs)] > 0
    /\ Len(got) < SumSeq(reqs)

\* C1 as stated: for every instruction byte and every payload of 0..250
\* bytes, the bytes _send_command writes, fed unchanged to _read_response,
\* come back as a frame with the same instruction and payload and a
\* checksum that matches.
C1_RoundTripAsWritten ==
    (LoopbackDecoded /\ ~arg.swap /\ Len(ArgPayload) <= MaxRoundTripLen)
        => /\ response = Some([instruction |-> arg.instruction, data |-> ArgPayload])
           /\ ~warned

\* C1 amended: the written bytes are decoded to the same instruction and
\* payload, with a matching checksum, once their two header bytes are
\* exchanged into the device's order 0x55 0xAA; fed unchanged, they are
\* refused on the header after two bytes.
C1_RoundTrip ==
    (LoopbackDecoded /\ Len(ArgPayload) <= MaxRoundTripLen)
        => IF arg.swap
           THEN /\ ret = "L135"
                /\ response = Some([instruction |-> arg.instruction, data |-> ArgPayload])
                /\ ~warned
                /\ rx = << >>
           ELSE /\ ret = "L101"
                /\ response = None
                /\ Len(got) = 2

C1_Witness ==
    /\ LoopbackDecoded
    /\ arg.swap
    /\ Len(ArgPayload) = MaxRoundTripLen
    /\ response # None
    /\ response[1].data = ArgPayload

\* C2 as stated: for every instruction and every payload, absent, empty or
\* not, one write puts exactly 0xAA 0x55 instruction (3 + len) payload
\* checksum on the channel.
C2_EncodeAnyPayload ==
    (op = "decode" /\ pc # "encode")
        => tx = <<RefFrame(HDR_AA, HDR_55, arg.instruction, ArgPayload)>>

\* C2 amended: the same, for every payload of at most 252 bytes (the longest
\* whose length byte 3 + len fits a byte).
C2_Encode ==
    (op = "decode" /\ pc # "encode" /\ Len(ArgPayload) <= 252)
        => /\ tx = <<RefFrame(HDR_AA, HDR_55, arg.instruction, ArgPayload)>>
           /\ exc = ""

C2_Witness ==
    /\ op = "decode"
    /\ pc # "encode"
    /\ Len(ArgPayload) = MaxSmallLen
    /\ Len(tx) = 1
    /\ tx[1][4] = 3 + MaxSmallLen

\* C3: every frame written has length byte 3 + len(payload) and is 2 + length
\* byte long, and every frame _read_response delivers has length byte
\* 3 + len(payload) and took exactly 2 + length byte bytes from the channel.
C3_LengthInvariant ==
    /\ \A i \in 1..Len(tx) :
         /\ tx[i][4] = 3 + (IF op = "decode" THEN Len(ArgPayload) ELSE 0)
         /\ Len(tx[i]) = 2 + tx[i][4]
    /\ ret = "L135"
         => /\ response # None
            /\ frame_length = 3 + Len(response[1].data)
            /\ Len(got) = 2 + frame_length

C3_Witness ==
    /\ op = "rec"
    /\ ret = "L135"
    /\ response # None
    /\ Len(response[1].data) = 17
    /\ Len(got) = 22
    /\ Len(tx) = 1

\* C4: _read_response asks for 2 bytes, 1 byte, 1 byte and then L - 2 bytes,
\* L being the length byte; of those L - 2 bytes the last is the checksum and
\* the ones before it are the delivered payload; when fewer than L - 2 come
\* back, it returns None by the incomplete-frame return and delivers nothing.
C4_DecodeLayout ==
    /\ reqs \in { << >>, <<2>>, <<2, 1>>, <<2, 1, 1>>, <<2, 1, 1, frame_length - 2>> }
    /\ (Len(reqs) >= 2 /\ Len(got) >= 3) => instruction = got[3]
    /\ (Len(reqs) >= 3 /\ Len(got) >= 4) => frame_length = got[4]
    /\ ret = "L135"
         => /\ response = Some([instruction |-> got[3],
                                data |-> SubSeq(got, 5, Len(got) - 1)])
            /\ Len(got) = 2 + got[4]
            /\ warned = (got[Len(got)] # SumSeq(Take(got, Len(got) - 1)) % ByteMod)
    /\ (Len(reqs) = 4 /\ Len(got) - 4 < frame_length - 2)
         => /\ ret = "L122"
            /\ response = None

C4_Witness ==
    /\ Len(reqs) = 4
    /\ frame_length = 11
    /\ Len(got) = 9
    /\ ret = "L122"

\* C5: whichever read falls short (header, instruction, length or remainder),
\* _read_response returns None by the return that follows that read and
\* raises nothing.
C5_ShortReadNoCrash ==
    ShortRead
        => /\ response = None
           /\ ret = <<"L98", "L106", "L112", "L122">>[Len(reqs)]
           /\ exc = ""
           /\ pc # "raised"

C5_Witness ==
    /\ ShortRead
    /\ Len(reqs) = 3
    /\ ret = "L112"
    /\ pc = "idle"

\* The reading of two payload bytes, low byte first, written independently
\* of the code: None for 0x6D60, else the number of tenths of a degree.
RefChannel(lo, hi) == IF lo = 96 /\ hi = 109 THEN None ELSE Some(lo + 256 * hi)

\* The samples of a payload: one per complete group of 8 bytes, in order.
RefSamples(payload) ==
    [j \in 1..(Len(payload) \div 8) |->
        [ch \in 1..4 |-> RefChannel(payload[8 * (j - 1) + 2 * ch - 1],
                                    payload[8 * (j - 1) + 2 * ch])]]

\* The payload of the frame whose bytes are exactly `frame`.
PayloadOfFrame(frame) == SubSeq(frame, 5, Len(frame) - 1)

\* The last n elements of a sequence.
LastN(s, n) == SubSeq(s, Len(s) - n + 1, Len(s))

\* The header read has returned two bytes.
HeaderRead == Len(reqs) >= 1 /\ Len(got) >= 2

\* C6: whenever the two header bytes read are not 0x55 0xAA (the host's own
\* order 0xAA 0x55 included), _read_response returns None by the header
\* return, having read exactly these 2 bytes, and the operation ends without
\* a result; with 0x55 0xAA it does not take that return.
C6_HeaderMismatch ==
    HeaderRead
        => IF Take(got, 2) = <<HDR_55, HDR_AA>>
           THEN ret # "L101"
           ELSE /\ ret = "L101"
                /\ response = None
                /\ reqs = <<2>>
                /\ Len(got) = 2
                /\ op = "decode" => rx = Drop(tx[1], 2)
                /\ pc \in {"idle", "done"}
                /\ result = None
                /\ exc = ""

C6_Witness ==
    /\ op = "rec"
    /\ got = <<HDR_AA, HDR_55>>
    /\ ret = "L101"
    /\ pc = "idle"
    /\ Len(rx) >= 3

\* A complete frame with a wrong checksum has just been delivered.
BadChecksumDelivered ==
    /\ ret = "L135"
    /\ Len(got) >= 5
    /\ got[Len(got)] # SumSeq(Take(got, Len(got) - 1)) % ByteMod

\* C7: a complete frame with a wrong checksum is delivered with instruction
\* and payload as received: get_device_info and get_real_time_data return
\* the value decoded from it, and get_recorded_data yields its samples in
\* order and goes on to read the next frame.
C7_ChecksumAdvisory ==
    BadChecksumDelivered
        => LET payload == PayloadOfFrame(got)
           IN  /\ warned
               /\ response = Some([instruction |-> got[3], data |-> payload])
               /\ (op = "info" /\ got[3] = CMD_STOP /\ Len(payload) >= 4)
                    => /\ pc = "idle"
                       /\ result # None
                       /\ result[1].model = payload[1] + 256 * payload[2]
                       /\ result[1].version
                            = << (payload[3] + 256 * payload[4]) \div 100,
                                 (payload[3] + 256 * payload[4]) % 100 >>
               /\ (op = "rt" /\ got[3] = CMD_REAL_TIME /\ Len(payload) >= 8)
                    => /\ pc = "idle"
                       /\ result # None
                       /\ result[1].ch = RefSamples(payload)[1]
               /\ (op = "rec" /\ got[3] = CMD_RECORDED)
                    => /\ pc \in {"yield", "hdr"}
                       /\ exc = ""
                       /\ LET n == IF pc = "yield" THEN gi \div 8 + 1
                                   ELSE Len(payload) \div 8
                          IN  /\ Len(out) >= n
                              /\ LastN(out, n) = Take(RefSamples(payload), n)

C7_Witness ==
    /\ BadChecksumDelivered
    /\ op = "rec"
    /\ got[3] = CMD_RECORDED
    /\ pc = "hdr"
    /\ Len(out) = 2

\* C8: every delivered frame carries a checksumValid attribute, false
\* exactly when the received checksum differs from the recomputed one.
C8_ChecksumFlag ==
    response # None
        => /\ "checksumValid" \in DOMAIN response[1]
           /\ response[1].checksumValid
                = (got[Len(got)] = SumSeq(Take(got, Len(got) - 1)) % ByteMod)

\* Whether bytes is a sequence of whole, valid Recorded frames: device
\* header, instruction 0x02, a length byte of at least 3, a matching checksum.
RECURSIVE IsRecordedStream(_)
IsRecordedStream(bytes) ==
    \/ bytes = << >>
    \/ /\ Len(bytes) >= 5
       /\ Take(bytes, 3) = <<HDR_55, HDR_AA, CMD_RECORDED>>
       /\ bytes[4] >= 3
       /\ Len(bytes) >= 2 + bytes[4]
       /\ bytes[2 + bytes[4]] = SumSeq(Take(bytes, 1 + bytes[4])) % ByteMod
       /\ IsRecordedStream(Drop(bytes, 2 + bytes[4]))

\* The samples of such a stream, frame by frame.
RECURSIVE StreamSamples(_)
StreamSamples(bytes) ==
    IF bytes = << >> THEN << >>
    ELSE RefSamples(PayloadOfFrame(Take(bytes, 2 + bytes[4])))
           \o StreamSamples(Drop(bytes, 2 + bytes[4]))

RECURSIVE FrameCount(_)
FrameCount(bytes) ==
    IF bytes = << >> THEN 0 ELSE 1 + FrameCount(Drop(bytes, 2 + bytes[4]))

\* The recorded stream has ended on a header read that returned no byte,
\* and what the channel returned before is a sequence of valid Recorded frames.
EndedOnSilence ==
    /\ op = "rec"
    /\ pc = "idle"
    /\ ret = "L98"
    /\ got = << >>
    /\ IsRecordedStream(opBytes)

\* C9: when the channel returns n valid Recorded frames and then nothing to
\* a header read, the generator has yielded exactly the samples of those
\* frames, frame by frame and in payload order, and has ended without an
\* exception.
C9_StreamToSilence ==
    EndedOnSilence
        => /\ out = StreamSamples(opBytes)
           /\ exc = ""
           /\ result = None

C9_Witness ==
    /\ EndedOnSilence
    /\ FrameCount(opBytes) = 2
    /\ Len(out) = 3

\* The ways a _read_response call of the recorded stream can have ended.
NoData == ret = "L98" /\ got = << >>
IncompleteFrame == ret \in {"L106", "L112", "L122"} \/ (ret = "L98" /\ Len(got) = 1)
WrongInstruction ==
    ret = "L135" /\ response # None /\ response[1].instruction # CMD_RECORDED
HeaderMismatch == ret = "L101"
LengthBelow3 == ret = "raise" /\ exc = "IndexError" /\ frame_length < 3

StreamEnded == op = "rec" /\ pc \in {"idle", "raised"}

\* C10 as stated: the recorded stream ends only on NoData, on a frame with
\* an instruction other than 0x02, or on an incomplete frame.
C10_ThreeEndings ==
    StreamEnded => (NoData \/ WrongInstruction \/ IncompleteFrame)

\* C10 amended: the recorded stream ends exactly on NoData, on a header
\* mismatch, on a frame with an instruction other than 0x02, on an
\* incomplete frame, or on a length byte below 3 (where _read_response
\* raises IndexError); after anything else, a checksum mismatch included,
\* it goes on.
C10_StreamEndings ==
    op = "rec"
        => /\ StreamEnded <=> (NoData \/ HeaderMismatch \/ WrongInstruction
                                 \/ IncompleteFrame \/ LengthBelow3)
           /\ (ret = "L135" /\ response # None /\ response[1].instruction = CMD_RECORDED)
                => pc \in {"yield", "hdr"}

C10_Witness ==
    /\ op = "rec"
    /\ pc = "hdr"
    /\ warned
    /\ ret = "L135"
    /\ response[1].instruction = CMD_RECORDED
    /\ Len(out) = 1

\* Why the latest _read_response call, or the caller's test of what it
\* returned, failed the single-response operation that has just ended ("" when
\* it did not fail).
OpEnded == op \in {"info", "rt"} /\ pc = "idle"

OpCause ==
    CASE HeaderMismatch -> "HeaderMismatch"
      [] NoData -> "NoData"
      [] IncompleteFrame -> "IncompleteFrame"
      [] ret = "L135" /\ op = "info" /\ instruction # CMD_STOP -> "UnexpectedInstruction"
      [] ret = "L135" /\ op = "rt" /\ instruction # CMD_REAL_TIME -> "UnexpectedInstruction"
      [] ret = "L135" /\ op = "info" /\ frame_length - 3 < 4 -> "PayloadTooShort"
      [] ret = "L135" /\ op = "rt" /\ frame_length - 3 < 8 -> "PayloadTooShort"
      [] OTHER -> ""

\* C11: what a failed get_device_info or get_real_time_data returns names
\* the cause of the failure, and a recorded stream that ends on a wrong
\* instruction or an incomplete frame ends with an error for the consumer,
\* unlike one that ends on NoData.
C11_TypedFailures ==
    /\ (OpEnded /\ OpCause # "")
          => /\ result # None
             /\ "error" \in DOMAIN result[1]
             /\ result[1].error = OpCause
    /\ (StreamEnded /\ (WrongInstruction \/ IncompleteFrame)) => exc # ""

\* The single _read_response call of the operation has read one whole frame:
\* every byte the operation read is of it, and they are as many as the
\* length byte says.
OneFrameRead ==
    /\ ret = "L135"
    /\ opBytes = got
    /\ Len(reqs) = 4
    /\ Len(got) = got[4] + 2

\* C12: get_device_info writes the one frame AA 55 00 03 02, makes one
\* _read_response call, and returns device info exactly when that call read
\* a whole frame with instruction 0x00 and at least 4 payload bytes; then
\* model = payload[0] + 256 * payload[1] and the version is
\* (payload[2] + 256 * payload[3]) / 100, whatever follows the fourth byte;
\* otherwise it returns None.
C12_DeviceInfo ==
    op = "info"
        => /\ tx = << <<170, 85, 0, 3, 2>> >>
           /\ opBytes = got
           /\ Len(reqs) <= 4
           /\ pc = "idle"
                => /\ result # None
                        <=> (OneFrameRead /\ got[3] = 0 /\ Len(PayloadOfFrame(got)) >= 4)
                   /\ result # None
                        => LET payload == PayloadOfFrame(got)
                               versionRaw == payload[3] + 256 * payload[4]
                           IN  /\ result[1].model = payload[1] + 256 * payload[2]
                               /\ result[1].version
                                    = <<versionRaw \div 100, versionRaw % 100>>

C12_Witness ==
    /\ op = "info"
    /\ pc = "idle"
    /\ result # None
    /\ Len(PayloadOfFrame(got)) > 4
    /\ PayloadOfFrame(got)[5] # PayloadOfFrame(got)[1]

\* C13: get_real_time_data writes the one frame AA 55 01 03 03, makes one
\* _read_response call, and returns a sample exactly when that call read a
\* whole frame with instruction 0x01 and at least 8 payload bytes; the four
\* channels are those of the first 8 payload bytes, and the timestamp is
\* taken when the write and all four reads of the frame are done, nothing
\* else happening on the channel before the return.
C13_RealTimeSample ==
    op = "rt"
        => /\ tx = << <<170, 85, 1, 3, 3>> >>
           /\ opBytes = got
           /\ Len(reqs) <= 4
           /\ pc = "idle"
                => /\ result # None
                        <=> (OneFrameRead /\ got[3] = 1 /\ Len(PayloadOfFrame(got)) >= 8)
                   /\ result # None
                        => /\ result[1].ch = RefSamples(Take(PayloadOfFrame(got), 8))[1]
                           /\ result[1].timestamp = Len(tx) + Len(reqs)
                           /\ result[1].timestamp = 5

C13_Witness ==
    /\ op = "rt"
    /\ pc = "idle"
    /\ result # None
    /\ Len(PayloadOfFrame(got)) > 8
    /\ result[1].ch[1] = None
    /\ result[1].ch[2] # None

\* The raw value of channel ch (1..4) of the sample at bytes 8j-7..8j of a
\* payload, low byte first.
RawOf(payload, j, ch) ==
    payload[8 * (j - 1) + 2 * ch - 1] + 256 * payload[8 * (j - 1) + 2 * ch]

\* The decoded channel c is what the raw value v stands for: absent for
\* 0x6D60 (28000) and for no other value, else v tenths of a degree.
DecodesAs(c, v) ==
    /\ v \in 0..65535
    /\ c = None <=> v = 28000
    /\ c # None => c[1] = v

\* The samples of the Recorded frame just delivered that have been yielded.
YieldedOfFrame == IF pc = "yield" THEN gi \div 8 + 1 ELSE Len(PayloadOfFrame(got)) \div 8

\* C14: in the sample get_real_time_data returns and in every sample
\* get_recorded_data yields, a channel is None exactly when its two bytes,
\* low byte first, form 0x6D60, and is otherwise the raw value (tenths of a
\* degree).
C14_Sentinel ==
    /\ (op = "rt" /\ pc = "idle" /\ result # None)
          => \A ch \in 1..4 : DecodesAs(result[1].ch[ch], RawOf(PayloadOfFrame(got), 1, ch))
    /\ (op = "rec" /\ ret = "L135" /\ got[3] = CMD_RECORDED /\ pc \in {"yield", "hdr"})
          => /\ Len(out) >= YieldedOfFrame
             /\ \A j \in 1..YieldedOfFrame : \A ch \in 1..4 :
                    DecodesAs(out[Len(out) - YieldedOfFrame + j][ch],
                              RawOf(PayloadOfFrame(got), j, ch))

\* A yielded sample with the sentinel, with the sentinel's bytes exchanged
\* (0x606D) and with 0xFFFF.
C14_Witness ==
    /\ op = "rec"
    /\ pc = "hdr"
    /\ ret = "L135"
    /\ Len(out) = 2
    /\ out[1] = <<Some(24685), Some(65535), Some(0), None>>
    /\ out[2][3] = Some(28001)

\* A Recorded frame has just been delivered to get_recorded_data.
RecordedDelivered == op = "rec" /\ ret = "L135" /\ got[3] = CMD_RECORDED

\* C15: of a Recorded frame whose payload has 8k + r bytes (0 <= r < 8),
\* get_recorded_data yields exactly k samples, the j-th decoded from payload
\* bytes 8j..8j+7 (j from 0); it then drops the r bytes left, raises nothing
\* and goes on to read the next frame.
C15_Partition ==
    RecordedDelivered
        => LET payload == PayloadOfFrame(got)
               k == Len(payload) \div 8
               n == YieldedOfFrame
           IN  /\ exc = ""
               /\ pc \in {"yield", "hdr"}
               /\ n <= k
               /\ pc = "yield" => gi = 8 * (n - 1)
               /\ pc = "hdr" => n = k
               /\ Len(out) >= n
               /\ opBytes = got => Len(out) = n
               /\ \A j \in 1..n :
                    out[Len(out) - n + j]
                        = [ch \in 1..4 |->
                            RefChannel(payload[8 * (j - 1) + 2 * ch - 1],
                                       payload[8 * (j - 1) + 2 * ch])]

\* A payload of 25 bytes: three samples, one byte dropped, the next frame's
\* header about to be read.
C15_Witness ==
    /\ RecordedDelivered
    /\ pc = "hdr"
    /\ Len(PayloadOfFrame(got)) = 25
    /\ Len(out) = 3
    /\ out[1] # out[2]
    /\ rx # << >>

\* The command frame of each operation, as the debug scripts write them.
CommandOf(o) ==
    CASE o = "info" -> <<170, 85, 0, 3, 2>>
      [] o = "rt" -> <<170, 85, 1, 3, 3>>
      [] o = "rec" -> <<170, 85, 2, 3, 4>>

\* The instruction each operation expects in the response.
ExpectedOf(o) ==
    CASE o = "info" -> CMD_STOP
      [] o = "rt" -> CMD_REAL_TIME
      [] o = "rec" -> CMD_RECORDED

\* The latest _read_response call of the operation met a malformed frame
\* (header mismatch), an incomplete one (a short read, silence included) or
\* one with an instruction the operation does not expect.
FailedCall ==
    /\ op \in {"info", "rt", "rec"}
    /\ \/ ret \in {"L98", "L101", "L106", "L112", "L122"}
       \/ ret = "L135" /\ response[1].instruction # ExpectedOf(op)

\* What an operation has written: nothing while the generator of
\* get_recorded_data has not been asked for its first sample, and from then
\* on its one command frame.
C16_State ==
    /\ op \in {"info", "rt", "rec"}
          => tx = IF pc = "created" THEN << >> ELSE <<CommandOf(op)>>
    /\ op \in {"info", "rt"} => opBytes = got
    /\ FailedCall => pc = "idle" /\ exc = ""

\* After a failed call the session does nothing but start a new operation.
C16_Step == FailedCall => (nops' = nops + 1 /\ rx' = rx /\ opBytes' = << >>)

\* C16: every operation writes exactly one command frame (get_recorded_data
\* when its generator is asked for the first sample), and after a header
\* mismatch, an unexpected instruction or an incomplete frame it ends, with
\* no further read or write of its own.
C16_NoRetry == [](C16_State) /\ [][C16_Step]_vars

\* get_device_info has ended on a frame with another instruction, leaving
\* the bytes that follow it unread.
C16_Witness ==
    /\ op = "info"
    /\ pc = "idle"
    /\ ret = "L135"
    /\ response[1].instruction = CMD_REAL_TIME
    /\ tx = << <<170, 85, 0, 3, 2>> >>
    /\ rx # << >>

\* Where the generator is while it serves a next(): inside _read_response.
ReadingPcs == {"hdr", "ins", "len", "rest"}

\* Where the generator waits for the consumer, or has been dropped by it.
SuspendedPcs == {"created", "yield", "closed"}

\* The bytes of the frames the stream has read to their end: all it has
\* read, less those of the frame the current _read_response call is in.
FramesDone ==
    IF pc = "hdr" THEN opBytes ELSE Take(opBytes, Len(opBytes) - Len(got))

\* Whenever the generator is about to read a byte of a frame, the samples of
\* all the frames before it have been yielded, in order.
C17_State == (op = "rec" /\ pc \in ReadingPcs) => out = StreamSamples(FramesDone)

\* The channel is read only while a next() is being served; serving starts
\* only from a generator waiting at its start or at a yield, by a step that
\* reads nothing; and a generator that waits, or was dropped, reads nothing.
C17_Step ==
    op' = "rec"
        => /\ rx' # rx => (pc \in ReadingPcs /\ op = "rec")
           /\ (pc' \in ReadingPcs /\ pc \notin ReadingPcs)
                 => (pc \in {"created", "yield"} /\ op = "rec" /\ rx' = rx)
           /\ pc \in SuspendedPcs => (rx' = rx /\ tx' \in {tx, << >>, <<CommandOf("rec")>>})
           /\ pc = "closed" => (pc' \notin ReadingPcs /\ out' \in {out, << >>})

\* C17: get_recorded_data yields every sample of a frame before it reads a
\* byte of the next frame, reads the channel only while serving a next() of
\* the consumer, and reads nothing once the consumer has stopped.
C17_Lazy == [](C17_State) /\ [][C17_Step]_vars

\* Both samples of the first frame are out, the generator is about to read
\* the next frame, which is waiting on the channel.
C17_Witness ==
    /\ op = "rec"
    /\ pc = "hdr"
    /\ FrameCount(opBytes) = 1
    /\ Len(out) = 2
    /\ Len(rx) >= 5

\* The generator of get_recorded_data has finished: its loop broke, it
\* raised, or the consumer dropped it.
GeneratorOver == op = "rec" /\ pc \in {"idle", "raised", "closed"}

\* A finished generator stays finished under next(), and whatever has been
\* yielded was yielded after the call's own Recorded command.
C18_State ==
    /\ (op = "rec" /\ late) => GeneratorOver
    /\ (op = "rec" /\ out # << >>) => tx = <<CommandOf("rec")>>

\* From a finished generator the only step that changes the channel, what
\* was written or what was yielded is the start of a new operation; next()
\* on it changes none of them.
C18_Step ==
    GeneratorOver
        => \/ /\ nops' = nops + 1
              /\ rx' = rx
              /\ out' = << >>
              /\ op' = "rec" => tx' = << >> /\ pc' = "created"
           \/ /\ late'
              /\ UNCHANGED <<rx, tx, out, pc, op, nops, opBytes, result>>

\* C18: once the generator of get_recorded_data has finished, every further
\* next() yields nothing and neither reads nor writes the channel; samples
\* come again only from a new get_recorded_data call, which writes the
\* Recorded command anew.
C18_NotRestartable == [](C18_State) /\ [][C18_Step]_vars

\* next() has been called on a generator that ended on a header mismatch,
\* after one sample, with bytes still on the channel.
C18_Witness ==
    /\ op = "rec"
    /\ late
    /\ pc = "idle"
    /\ HeaderMismatch
    /\ Len(out) = 1
    /\ rx # << >>

\* A single-response operation has written one frame and has made at most
\* the four reads of one _read_response call; a recorded stream has yielded
\* at most one sample for every 8 bytes it has read.
C19_Bounded ==
    /\ op \in {"info", "rt"}
          => /\ Len(tx) = 1
             /\ Len(reqs) <= 4
             /\ opBytes = got
             /\ pc \in ReadingPcs \cup {"idle", "raised"}
    /\ op = "rec" => 8 * Len(out) <= Len(opBytes)

\* The operation is over: it returned, or an exception left it.
OperationOver == pc \in {"idle", "raised"}

\* C19: get_device_info and get_real_time_data end after one write and at
\* most four reads, and a get_recorded_data generator whose consumer keeps
\* asking ends, having yielded finitely many samples, on a channel that
\* holds finitely many bytes (so that some header read falls short).
C19_Termination ==
    /\ [](C19_Bounded)
    /\ (op \in {"info", "rt", "rec"}) ~> OperationOver

\* get_real_time_data has ended after its fourth read fell short.
C19_Witness ==
    /\ op = "rt"
    /\ pc = "idle"
    /\ Len(reqs) = 4
    /\ ret = "L122"
    /\ Len(tx) = 1

\* The state of the session's current operation, read off the code's
\* position: a single-response operation awaits its response while
\* _read_response runs and ends Delivered (a value returned), TimedOut (None
\* after a read that fell short) or Faulted (None after a header mismatch,
\* another instruction or a short payload, or an exception); a recorded
\* download is Idle until its command is written, Streaming while its
\* generator reads or waits at a yield, and Finished afterwards.
Phase ==
    IF op \in {"info", "rt"}
    THEN IF pc \in ReadingPcs THEN "AwaitingResponse"
         ELSE IF pc = "idle" /\ result # None THEN "Delivered"
         ELSE IF pc = "idle" /\ ret \in {"L98", "L106", "L112", "L122"} THEN "TimedOut"
         ELSE "Faulted"
    ELSE IF op = "rec"
    THEN IF tx = << >> THEN "Idle"
         ELSE IF pc \in ReadingPcs \cup {"yield"} THEN "Streaming"
         ELSE "Finished"
    ELSE "Idle"

TerminalPhases == {"Delivered", "TimedOut", "Faulted", "Finished"}

\* The transitions within one operation.
PhaseSteps ==
    { <<"Idle", "Idle">>, <<"Idle", "Streaming">>,
      <<"AwaitingResponse", "AwaitingResponse">>, <<"AwaitingResponse", "Delivered">>,
      <<"AwaitingResponse", "TimedOut">>, <<"AwaitingResponse", "Faulted">>,
      <<"Streaming", "Streaming">>, <<"Streaming", "Finished">> }
        \cup { <<t, t>> : t \in TerminalPhases }

\* Nothing has been read, and no read is under way, unless the operation's
\* command has been written.
C20_State ==
    op \in {"info", "rt", "rec"}
        => /\ (opBytes # << >> \/ reqs # << >> \/ pc \in ReadingPcs \cup {"yield"})
                 => tx = <<CommandOf(op)>>
           /\ Phase = "Delivered" => (ret = "L135" /\ exc = "")
           /\ Phase = "TimedOut" => (response = None /\ shorts = 1)

C20_Step ==
    /\ rx' # rx => (Phase \in {"AwaitingResponse", "Streaming"} /\ nops' = nops)
    /\ IF nops' = nops
       THEN /\ <<Phase, Phase'>> \in PhaseSteps
            /\ Phase \in TerminalPhases => UNCHANGED <<rx, tx, result, out, exc, ret>>
            /\ (Phase = "Idle" /\ Phase' = "Streaming")
                  => (tx' = <<CommandOf("rec")>> /\ rx' = rx)
       ELSE /\ Phase \in TerminalPhases \cup {"Idle"}
            /\ Phase' \in {"AwaitingResponse", "Idle"}
            /\ Phase' = "AwaitingResponse" => (tx' = <<CommandOf(op')>> /\ rx' = rx)

\* C20: within one operation the session moves Idle -> AwaitingResponse (by
\* the command write) -> Delivered, TimedOut or Faulted, or, for a recorded
\* download, Idle -> Streaming (by the command write) -> ... -> Finished;
\* the channel is read only in AwaitingResponse and Streaming, hence after
\* the command write; and a terminal state is left only by the start of a
\* new operation.
C20_StateMachine == [](C20_State) /\ [][C20_Step]_vars

\* A second operation of the session has timed out in its length read.
C20_Witness ==
    /\ nops = 2
    /\ op = "info"
    /\ Phase = "TimedOut"
    /\ ret = "L112"

\* Whether bytes is exactly one whole device frame: device header, a length
\* byte L of at least 3, and L + 2 bytes in all.
RefWhole(bytes) ==
    /\ Len(bytes) >= 5
    /\ bytes[1] = 85
    /\ bytes[2] = 170
    /\ bytes[4] >= 3
    /\ Len(bytes) = bytes[4] + 2

\* What get_device_info returns when its reads return `bytes` in all.
RefInfoOf(bytes) ==
    IF RefWhole(bytes) /\ bytes[3] = 0 /\ bytes[4] - 3 >= 4
    THEN LET raw == bytes[7] + 256 * bytes[8]
         IN  Some([model |-> bytes[5] + 256 * bytes[6],
                   version |-> <<raw \div 100, raw % 100>>])
    ELSE None

\* What get_real_time_data returns when its reads return `bytes` in all.
RefRealTimeOf(bytes) ==
    IF RefWhole(bytes) /\ bytes[3] = 1 /\ bytes[4] - 3 >= 8
    THEN Some([timestamp |-> 5, ch |-> RefSamples(PayloadOfFrame(bytes))[1]])
    ELSE None

\* What get_recorded_data yields when its reads return `bytes` in all: the
\* samples of the whole Recorded frames `bytes` starts with.
RECURSIVE RefStreamOf(_)
RefStreamOf(bytes) ==
    IF /\ Len(bytes) >= 5
       /\ Take(bytes, 3) = <<85, 170, 2>>
       /\ bytes[4] >= 3
       /\ Len(bytes) >= bytes[4] + 2
    THEN RefSamples(PayloadOfFrame(Take(bytes, bytes[4] + 2)))
            \o RefStreamOf(Drop(bytes, bytes[4] + 2))
    ELSE << >>

\* What an operation that is over has given its caller is determined by the
\* operation and the bytes its own reads returned.
C21_State ==
    OperationOver
        => /\ op = "info" => result = RefInfoOf(opBytes)
           /\ op = "rt" => result = RefRealTimeOf(opBytes)
           /\ op = "rec" => (out = RefStreamOf(opBytes) /\ result = None)

\* An operation starts with nothing of the operation before it but the
\* channel, which it takes where that operation left it.
C21_Step ==
    nops' = nops + 1
        => /\ rx' = rx
           /\ result' = None
           /\ out' = << >>
           /\ gdata' = << >>
           /\ opBytes' = << >>
           /\ got' = << >>
           /\ response' = None

\* C21: what an operation returns or yields is a function of the operation
\* and of the bytes its own reads returned; the next operation takes over
\* the channel's read position and nothing else, after a failed operation
\* too.
C21_NoHiddenState == [](C21_State) /\ [][C21_Step]_vars

\* The session's second operation, a recorded stream, has ended after one
\* sample.
C21_Witness ==
    /\ nops = 2
    /\ op = "rec"
    /\ pc = "idle"
    /\ Len(out) = 1
    /\ out = RefStreamOf(opBytes)

\* C23: the frame written for a command without payload is AA 55 00 03 02
\* for Stop (get_device_info), AA 55 01 03 03 for RealTime
\* (get_real_time_data) and AA 55 02 03 04 for Recorded (get_recorded_data),
\* its last byte being the sum of the four before it mod 256.
C23_CommandFrames ==
    /\ \A i \in 1..Len(tx) :
          (op \in {"info", "rt", "rec"} \/ arg.data = None)
              => /\ Len(tx[i]) = 5
                 /\ tx[i][5] = (tx[i][1] + tx[i][2] + tx[i][3] + tx[i][4]) % 256
                 /\ Take(tx[i], 2) = <<170, 85>>
                 /\ tx[i][4] = 3
    /\ (op = "info" /\ tx # << >>) => tx[1] = <<170, 85, 0, 3, 2>>
    /\ (op = "rt" /\ tx # << >>) => tx[1] = <<170, 85, 1, 3, 3>>
    /\ (op = "rec" /\ tx # << >>) => tx[1] = <<170, 85, 2, 3, 4>>
    /\ (op = "decode" /\ arg.data = None /\ tx # << >>)
          => tx[1] = <<170, 85, arg.instruction, 3, (2 + arg.instruction) % 256>>

\* The Recorded command has been written and its response is being read.
C23_Witness ==
    /\ op = "rec"
    /\ pc = "ins"
    /\ tx = << <<170, 85, 2, 3, 4>> >>

\* _read_response has just delivered a frame whose bytes are `frame`.
JustRead(frame) == ret = "L135" /\ got = frame

\* C24: _read_response decodes 55 AA 00 07 64 02 4A 01 B7 to instruction
\* 0x00 and payload 64 02 4A 01 without a checksum warning, and
\* get_device_info returns model 612 and version 3.30 (raw 330) for it.
C24_InfoScenario ==
    JustRead(<<85, 170, 0, 7, 100, 2, 74, 1, 183>>)
        => /\ instruction = 0
           /\ frame_length = 7
           /\ response = Some([instruction |-> 0, data |-> <<100, 2, 74, 1>>])
           /\ ~warned
           /\ op = "info" => (pc = "idle" /\ result = Some([model |-> 612, version |-> <<3, 30>>]))

C24_Witness ==
    /\ JustRead(<<85, 170, 0, 7, 100, 2, 74, 1, 183>>)
    /\ op = "info"
    /\ result # None

\* C25: _read_response decodes 55 AA 01 0B E1 00 60 6D 60 6D 60 6D 53
\* without a checksum warning, and get_real_time_data returns for it one
\* sample with channel 1 at raw 225 (22.5 degrees) and channels 2, 3 and 4
\* absent.
C25_RealTimeScenario ==
    JustRead(<<85, 170, 1, 11, 225, 0, 96, 109, 96, 109, 96, 109, 83>>)
        => /\ instruction = 1
           /\ response = Some([instruction |-> 1,
                                data |-> <<225, 0, 96, 109, 96, 109, 96, 109>>])
           /\ ~warned
           /\ op = "rt"
                => /\ pc = "idle"
                   /\ result # None
                   /\ result[1].ch = <<Some(225), None, None, None>>

C25_Witness ==
    /\ JustRead(<<85, 170, 1, 11, 225, 0, 96, 109, 96, 109, 96, 109, 83>>)
    /\ op = "rt"
    /\ result # None

\* A _read_response call has read a length byte below 3 and is over.
ShortLengthCallOver ==
    /\ Len(reqs) >= 3
    /\ Len(got) >= 4
    /\ got[4] < 3
    /\ pc # "rest"

\* C27: after a length byte L in 0..2, _read_response returns its failure
\* value None, delivers no frame and raises nothing.
C27_ShortLengthFails ==
    ShortLengthCallOver
        => /\ exc = ""
           /\ response = None
           /\ ret \in {"L112", "L122"}

\* The recorded stream has ended on a frame with another instruction or on
\* an incomplete frame.
AbnormalEnd == op = "rec" /\ pc = "idle" /\ (WrongInstruction \/ IncompleteFrame)

\* The bytes the stream had read before its last _read_response call.
BytesBefore == Take(opBytes, Len(opBytes) - Len(got))

\* Nothing is yielded from the frame the stream ends on, and what was yielded
\* before stays.
C28_State ==
    AbnormalEnd
        => /\ out = RefStreamOf(BytesBefore)
           /\ exc = ""
           /\ result = None

\* The ended stream reads and yields nothing more.
C28_Step == AbnormalEnd => (nops' = nops + 1 /\ rx' = rx)

\* C28: when get_recorded_data ends on a frame with another instruction or
\* on an incomplete frame, it has yielded the samples of the frames before
\* it and none of that frame, whatever payload bytes of it were read, and
\* it reads nothing further.
C28_AbnormalEnd == [](C28_State) /\ [][C28_Step]_vars

\* The stream has ended on a whole RealTime frame (8 payload bytes), after
\* one sample from the Recorded frame before it.
C28_Witness ==
    /\ AbnormalEnd
    /\ WrongInstruction
    /\ response[1].instruction = CMD_REAL_TIME
    /\ Len(response[1].data) = 8
    /\ Len(out) = 1

\* Whole frames back to back: header 55 AA, an instruction, a length byte
\* L >= 3 and L - 1 further bytes each.
RECURSIVE IsFrameSeq(_)
IsFrameSeq(bytes) ==
    \/ bytes = << >>
    \/ /\ Len(bytes) >= 5
       /\ bytes[1] = HDR_55
       /\ bytes[2] = HDR_AA
       /\ bytes[4] >= 3
       /\ Len(bytes) >= 2 + bytes[4]
       /\ IsFrameSeq(Drop(bytes, 2 + bytes[4]))

\* What was on the channel when the current operation was called.
AtCall == opBytes \o rx

C29_State ==
    (op \in {"info", "rt", "rec"} /\ ret = "L135" /\ IsFrameSeq(AtCall))
        => IsFrameSeq(rx)

\* No step takes bytes off the channel other than into the operation's
\* reads, and the call of the next operation leaves the channel as it is.
C29_Step ==
    /\ (nops' = nops /\ op \in {"info", "rt", "rec"}) => opBytes' \o rx' = AtCall
    /\ nops' = nops + 1 => (rx' = rx /\ opBytes' = << >>)

\* C29: on a channel of whole frames back to back, whenever a
\* _read_response call has delivered a frame (rejected afterwards by the
\* caller or not) the unread bytes start at a frame; and the bytes an
\* operation leaves unread, however it ended, are what the next operation's
\* reads start with: nothing is discarded between or during operations.
C29_Alignment == [](C29_State) /\ [][C29_Step]_vars

\* An operation ended with a frame delivered to it and whole frames left
\* unread, and the next operation has read the header of the first of them.
C29_Witness ==
    /\ nops = 2
    /\ prev.delivered
    /\ ~prev.abandoned
    /\ IsFrameSeq(AtCall)
    /\ pc = "ins"
    /\ got = <<HDR_55, HDR_AA>>
    /\ got = opBytes

\* A whole Recorded frame is at the head of bytes.
RecordedAtHead(bytes) ==
    /\ Len(bytes) >= 5
    /\ Take(bytes, 3) = <<HDR_55, HDR_AA, CMD_RECORDED>>
    /\ bytes[4] >= 3
    /\ Len(bytes) >= 2 + bytes[4]

\* The current operation, get_device_info or get_real_time_data, was called
\* after the consumer dropped a recorded stream with a whole Recorded frame
\* still unread, and is over without any of its reads falling short.
AfterAbandonedStream ==
    /\ prev.abandoned
    /\ RecordedAtHead(AtCall)
    /\ op \in {"info", "rt"}
    /\ pc = "idle"
    /\ shorts = 0

C30_State ==
    AfterAbandonedStream
        => /\ ret = "L135"
           /\ opBytes = Take(AtCall, 2 + AtCall[4])
           /\ response # None
           /\ response[1].instruction = CMD_RECORDED
           /\ result = None

\* Dropping the generator reads nothing, and neither does the call of the
\* operation after it.
C30_Step ==
    /\ (pc' = "closed" /\ pc # "closed") => rx' = rx
    /\ (pc = "closed" /\ nops' = nops + 1) => (rx' = rx /\ prev'.abandoned)

\* C30: dropping a recorded stream before it ended leaves the unread
\* Recorded frames on the channel, and a get_device_info or
\* get_real_time_data called next reads the first of them as its response
\* and returns None, the frame's instruction being 0x02.
C30_AbandonedStream == [](C30_State) /\ [][C30_Step]_vars

\* get_device_info has returned None on the Recorded frame that a stream
\* dropped after its first sample had left unread.
C30_Witness ==
    /\ AfterAbandonedStream
    /\ op = "info"
    /\ Len(tx) = 1
    /\ tx[1] = <<HDR_AA, HDR_55, CMD_STOP, 3, 2>>
    /\ Len(opBytes) = 2 + opBytes[4]
    /\ result = None

\* The rows of a sequence of samples: numbered from 0 in order, 'ERROR' for
\* an absent reading, the reading's decimal text otherwise.
RefRows(samples) ==
    [k \in 1..Len(samples) |->
        [sample_num |-> k - 1,
         cells |-> [ch \in 1..4 |->
                      IF samples[k][ch] = None THEN "ERROR"
                      ELSE ToString(samples[k][ch][1] \div 10) \o "."
                             \o ToString(samples[k][ch][1] % 10)]]]

\* The samples the for loop has been through: all yielded ones, but for the
\* one the generator is suspended at, whose turn of the loop is next.
Consumed == IF pc = "yield" THEN Take(out, Len(out) - 1) ELSE out

\* C26: download_recorded_data writes one row per sample the stream yields,
\* in the order yielded, numbered 0, 1, 2, ..., with 'ERROR' for each absent
\* reading and the reading's number for each present one, and the total it
\* prints is the number of samples yielded.
C26_DownloadRows ==
    op = "rec"
        => /\ sink.rows = RefRows(Consumed)
           /\ sink.sample_num = Len(Consumed)
           /\ sink.total # None => (pc = "idle" /\ sink.total = Some(Len(out)))

\* Two samples of one Recorded frame have been written and the total printed.
C26_Witness ==
    /\ op = "rec"
    /\ sink.total = Some(2)
    /\ Len(out) = 2
    /\ sink.rows[1] = [sample_num |-> 0, cells |-> <<"22.5", "ERROR", "ERROR", "ERROR">>]
    /\ sink.rows[2] = [sample_num |-> 1, cells |-> <<"2468.5", "6553.5", "0.0", "ERROR">>]

\* Every byte a caller's reads returned answers that caller's own command.
OwnBytesOnly == \A t \in Callers : th.c[t].from \subseteq {t}

BuiltFrame == CommandFrame(arg.instruction, arg.data)

\* C31: every element of every frame handed to the channel is in 0..255,
\* the checksum _send_command computes is in 0..255 whatever the payload,
\* and for a payload of more than 252 bytes _send_command raises before
\* self.ser.write, so that nothing at all is written.
C31_BytesOnly ==
    /\ \A i \in 1..Len(tx) : \A j \in 1..Len(tx[i]) : tx[i][j] \in 0..255
    /\ op = "decode"
          => /\ BuiltFrame[Len(BuiltFrame)] \in 0..255
             /\ (pc # "encode" /\ Len(ArgPayload) > 252)
                   => /\ tx = << >>
                      /\ rx = << >>
                      /\ exc = "ValueError"
                      /\ pc = "raised"

\* _send_command was given 253 payload bytes, built a frame whose length
\* element is 256, and raised with nothing written.
C31_Witness ==
    /\ op = "decode"
    /\ Len(ArgPayload) = 253
    /\ BuiltFrame[4] = 256
    /\ pc = "raised"
    /\ exc = "ValueError"
    /\ tx = << >>

\* The loop's bookkeeping: the count is the number of rows, one call of
\* get_real_time_data per iteration, and the loop is left exactly when an
\* iteration finds a positive duration elapsed.
C32_State ==
    log.at # "off"
        => /\ log.sample_count = Len(log.rows)
           /\ nops \in {log.iters, log.iters + 1}
           /\ log.at = "ended"
                 => (log.duration > 0 /\ log.elapsed >= log.duration /\ nops = log.iters)
           /\ (log.at = "loop" /\ log.iters > 0 /\ log.duration > 0)
                 => \/ log.elapsed < log.duration
                    \/ (Sampling /\ pc = "raised")

\* An iteration whose sample failed writes nothing and goes on unless the
\* duration has elapsed; one whose sample came writes one row.
C32_Step ==
    log'.iters = log.iters + 1
        => /\ nops' = nops
           /\ IF result = None
              THEN /\ log'.rows = log.rows
                   /\ log'.sample_count = log.sample_count
                   /\ log'.at = "ended" => (log.duration > 0 /\ log'.elapsed >= log.duration)
              ELSE /\ log'.rows = Append(log.rows, LogRowOf(result[1]))
                   /\ log'.sample_count = log.sample_count + 1

\* Whatever get_real_time_data met, the iteration comes back to the loop.
C32_NoAbort == log.at # "off" => exc = ""

C32_Kept == C32_State /\ C32_NoAbort

\* C32: every iteration of the logging loop calls get_real_time_data once;
\* a failed sample writes no row, leaves the count as it is and lets the
\* loop go on; the count is always the number of rows written; and with a
\* positive duration the loop ends at the first iteration finishing at or
\* after it.
C32_LoggingLoop == [](C32_Kept) /\ [][C32_Step]_vars

\* The port is open inside the with-block and closed from the moment the
\* block is left, and it has been really closed at most once.
C33_State ==
    /\ ser.left = "" => (ser.is_open /\ ser.closes = 0 /\ ser.calls = 0)
    /\ ser.left # "" => (~ser.is_open /\ ser.closes = 1)

\* The block is left exactly when it ends or something raises in it, and a
\* close() on the closed port changes nothing of the port.
C33_Step ==
    /\ (ser.left = "" /\ ser'.left # "")
          => (pc = "raised" \/ exc # "" \/ sink.total # None)
    /\ (ser'.calls = ser.calls + 1 /\ ~ser.is_open)
          => (ser'.is_open = ser.is_open /\ ser'.closes = ser.closes)

\* C33: the port is closed when the with-block is left, on normal
\* completion and when an operation or the sink raises alike; close() on
\* the closed port does nothing, so the port is never closed twice.
C33_ClosedOnce == [](C33_State) /\ [][C33_Step]_vars

\* An operation raised IndexError inside the with-block, __exit__ closed
\* the port, and close() was called twice more.
C33_Witness ==
    /\ ser.left = "operation"
    /\ exc = "IndexError"
    /\ ser.calls = 3
    /\ ser.closes = 1
    /\ ~ser.is_open

====
